---- MODULE Spec2Model ----
(***************************************************************************)
(* Upload-and-poll controller of the LedgerLens front end (function App).  *)
(* Every accepted drop creates one closure of onDrop; closure u is the     *)
(* u-th accepted file.  A closure suspends at each await (upload request,  *)
(* body reads, status request, status body, stop request) and at the poll  *)
(* timer; pc[u] is the suspend point it is waiting at.  The React state    *)
(* and the two refs are shared by all closures.                            *)
(*                                                                         *)
(* Two further parts stand beside it: the mapping of a 'completed' answer  *)
(* into the display model (mapAccountInfo, mapMonthlyStats, the analytics  *)
(* object), and the lockout countdown of LoginPage and ResetPasscodeModal  *)
(* with the cells of PasscodeInput.  Each part has its own specification;  *)
(* the other parts stay as Init leaves them.                               *)
(***************************************************************************)
EXTENDS Integers, FiniteSets, Sequences, TLC

\* ---------------------------------------------------------------- bounds
\* accepted drops explored under Spec
MaxUploads == 2
\* 'processing' answers the server gives one job under Spec
MaxRounds == 1
\* accepted drops explored under SpecLong, where the server may answer
\* 'processing' for ever
MaxLongUploads == 1

\* ------------------------------------------------------- program constants
initialPollInterval == 60000
maxPollTime == 10800000
\* backoffMultiplier = 1.5 = BackoffNum / BackoffDen
BackoffNum == 3
BackoffDen == 2

\* null of the two refs (ids and timer handles are truthy)
None == 0
\* null of the error message
Null == "null"
\* handle held by pollTimeoutRef when no timer was stored
NoTimer == <<>>

MaxClosures == IF MaxUploads > MaxLongUploads THEN MaxUploads ELSE MaxLongUploads
Uploads == 1..MaxClosures

\* the backend issues job id u for the u-th upload
JobId(u) == u

\* ---------------------------------------------------------------- messages
MsgServerText == "upload rejected by server"
MsgServerError == "Server error: 500 Internal Server Error"
MsgUploadFailed == "Failed to upload PDF"
MsgNetwork == "Network or server error: fetch failed"
MsgTypeError == "Network or server error: Cannot read properties of null"
MsgParse == "Network or server error: Failed to parse upload response"
MsgNoId == "Network or server error: No PDF ID returned from server"
MsgJobError == "statement could not be parsed"
MsgJobFallback == "Error processing PDF"
MsgStatusFetch == "Error checking processing status: Failed to fetch processing status"
MsgStatusNetwork == "Error checking processing status: fetch failed"
MsgStatusBody == "Error checking processing status: Unexpected token"
MsgStatusNull == "Error checking processing status: Cannot read properties of null"
MsgTimeout == "Error checking processing status: Processing timeout. Please try again later."
\* the message of the inner catch, `Error processing month ${month}`, as it would
\* be shown if it reached catch (pollError)
MsgMonthNamed == "Error checking processing status: Error processing month Jan"

MsgMonthly == "Error checking processing status: Error processing monthly data"

VARIABLES
    uploadedFile,     \* useState: index of the last accepted file, 0 = null
    isAnalyzing,      \* useState
    showResults,      \* useState
    accountInfo,      \* useState: job whose account_info is displayed, None = null
    monthlyData,      \* useState: job whose monthly_analysis is displayed, None = []
    analytics,        \* useState: job whose analytics is displayed, None = null
    error,            \* useState
    pollTimeoutRef,   \* useRef: a timer handle <<u, k>> or NoTimer
    currentPdfIdRef,  \* useRef: a job id or None
    timers,           \* pending setTimeout callbacks, as handles
    pc,               \* per closure: the suspend point
    resp,             \* per closure: body of the response it is reading, "" = none
    pollInterval,     \* per closure: let pollInterval
    totalPollTime,    \* per closure: let totalPollTime
    polls,            \* per closure: status requests sent so far
    lastDelay,        \* per closure: delay of the timer scheduled last
    waited,           \* per closure: sum of the delays of the timers that fired
    stopSent,         \* jobs a stop request was sent for
    outcome,          \* per closure: the path it returned by, "" = still running
    mounted,          \* App is mounted: its dropzone and its window listeners exist
    resultsData,      \* the body of a 'completed' answer being mapped
    mapped,           \* the display model mapped from resultsData
    mapPc,            \* "input" while the answer is put together, then "mapped"
    edits,            \* fields of the answer changed so far
    form,             \* the form watched: "login" (LoginPage) or "reset" (ResetPasscodeModal)
    now,              \* Date.now(), in seconds
    lockoutUntil,     \* useState<Date | null>, in seconds, NoLockout = null
    loading,          \* useState of the form
    formError,        \* useState error of the form
    remainingMinutes, \* getRemainingTime() of the last render, 0 = null
    disabled,         \* loading || !!remainingMinutes of the last render
    formPc,           \* the submit handler: "idle", "fetching", "decoding", "left"
    formResp,         \* the response the submit handler is decoding
    statusPc,         \* checkBackendLockout: "unsent", "fetching", "decoding", "done"
    statusResp,       \* the auth/status response being decoded
    requests,         \* login / reset requests sent so far
    values,           \* PasscodeInput useState: the content of the cells
    code,             \* the argument of the last onComplete call, <<>> = none
    event             \* what the last input event of PasscodeInput carried, "" = none

display == <<accountInfo, monthlyData, analytics>>
view == <<uploadedFile, isAnalyzing, showResults, display, error>>
refs == <<pollTimeoutRef, currentPdfIdRef, timers>>
counters == <<pollInterval, totalPollTime, polls, lastDelay, waited, stopSent>>
appVars == <<view, refs, pc, resp, outcome, counters, mounted>>
mapVars == <<resultsData, mapped, mapPc, edits>>
lockVars == <<lockoutUntil, loading, formError, remainingMinutes, disabled>>
\* state of PasscodeInput and what it handed to its parent
inputVars == <<values, code, event>>
authVars == <<form, now, lockVars, formPc, formResp, statusPc, statusResp, requests, inputVars>>
\* what the handlers of the upload page do not touch
others == <<mapVars, authVars, mounted>>
vars == <<appVars, mapVars, authVars>>

InitApp ==
    /\ uploadedFile = 0
    /\ isAnalyzing = FALSE
    /\ showResults = FALSE
    /\ accountInfo = None
    /\ monthlyData = None
    /\ analytics = None
    /\ error = Null
    /\ pollTimeoutRef = NoTimer
    /\ currentPdfIdRef = None
    /\ timers = {}
    /\ pc = [u \in Uploads |-> "idle"]
    /\ resp = [u \in Uploads |-> ""]
    /\ pollInterval = [u \in Uploads |-> 0]
    /\ totalPollTime = [u \in Uploads |-> 0]
    /\ polls = [u \in Uploads |-> 0]
    /\ lastDelay = [u \in Uploads |-> 0]
    /\ waited = [u \in Uploads |-> 0]
    /\ stopSent = {}
    /\ outcome = [u \in Uploads |-> ""]
    /\ mounted = TRUE

\* ------------------------------------------------------------- clearPolling
\* clearTimeout of the stored handle (a no-op when that timer already fired)
ClearedTimers == IF pollTimeoutRef # NoTimer THEN timers \ {pollTimeoutRef} ELSE timers

\* clearPolling forgetting currentPdfIdRef.current = null
ClearPollingKeepsMarker ==
    /\ timers' = ClearedTimers
    /\ pollTimeoutRef' = NoTimer
    /\ UNCHANGED currentPdfIdRef

ClearPolling ==
    /\ timers' = ClearedTimers
    /\ pollTimeoutRef' = NoTimer
    /\ currentPdfIdRef' = None

\* the closure returns (or its promise settles) by path `how`
Return(u, how) ==
    /\ pc' = [pc EXCEPT ![u] = "done"]
    /\ resp' = [resp EXCEPT ![u] = ""]
    /\ outcome' = [outcome EXCEPT ![u] = how]

\* the closure suspends at the await `at`, the response body b being in flight
Await(u, at, b) ==
    /\ pc' = [pc EXCEPT ![u] = at]
    /\ resp' = [resp EXCEPT ![u] = b]
    /\ UNCHANGED outcome

\* ------------------------------------------------------------------- onDrop
\* catch (e) of onDrop
OnDropCatch(u, msg) ==
    /\ error' = msg
    /\ isAnalyzing' = FALSE
    /\ ClearPolling
    /\ Return(u, "uploadThrew")

\* the non-2xx branch forgetting setIsAnalyzing(false)
UploadFailedKeepsAnalyzing(u, msg) ==
    /\ error' = msg
    /\ Return(u, "uploadFailed")
    /\ UNCHANGED <<isAnalyzing, refs>>

\* if (!response.ok) { ... setError(...); setIsAnalyzing(false); return; }
UploadFailed(u, msg) ==
    /\ error' = msg
    /\ isAnalyzing' = FALSE
    /\ Return(u, "uploadFailed")
    /\ UNCHANGED refs

\* err.error || 'Failed to upload PDF', err being the decoded body or, when the
\* body does not decode, { error: `Server error: ...` }
ErrorText(body) ==
    CASE body = "undecodable" -> MsgServerError
      [] body = "withError" -> MsgServerText
      [] OTHER -> MsgUploadFailed

\* the dropzone calls onDrop with n accepted files (maxFiles: 1); the dropzone is
\* rendered only while the results view is not shown
OnDrop(n, maxU) ==
    /\ mounted
    /\ ~showResults
    /\ UNCHANGED others
    /\ IF n = 0
       THEN UNCHANGED vars
       ELSE /\ uploadedFile < maxU
            /\ ClearPolling
            /\ uploadedFile' = uploadedFile + 1
            /\ isAnalyzing' = TRUE
            /\ error' = Null
            /\ showResults' = FALSE
            /\ Await(uploadedFile + 1, "uploading", "")
            /\ UNCHANGED <<display, counters>>

ErrBodies == {"undecodable", "withError", "noError", "null"}
UploadBodies == {"unparseable", "null", "noId", "id"}

\* await fetch(uploadUrl) settles: rejected, or a response with status and body
UploadResolve(u, r, b) ==
    /\ pc[u] = "uploading"
    /\ UNCHANGED others
    /\ CASE r = "reject" -> b = "" /\ OnDropCatch(u, MsgNetwork)
         [] r = "non2xx" ->
              b \in ErrBodies /\ Await(u, "errbody", b) /\ UNCHANGED <<error, isAnalyzing, refs>>
         [] OTHER ->
              b \in UploadBodies /\ Await(u, "reading", b) /\ UNCHANGED <<error, isAnalyzing, refs>>
    /\ UNCHANGED <<uploadedFile, showResults, display, counters>>

\* response.json() awaited outside any try: a body that does not decode rejects
\* the promise of onDrop and nothing is reported
ErrBodyResolveUnhandled(u) ==
    /\ pc[u] = "errbody"
    /\ UNCHANGED others
    /\ IF resp[u] = "undecodable"
       THEN Return(u, "unhandled") /\ UNCHANGED <<error, isAnalyzing, refs>>
       ELSE IF resp[u] = "null"
       THEN OnDropCatch(u, MsgTypeError)
       ELSE UploadFailed(u, ErrorText(resp[u]))
    /\ UNCHANGED <<uploadedFile, showResults, display, counters>>

\* await response.json() of a non-2xx response settles
ErrBodyResolve(u) ==
    /\ pc[u] = "errbody"
    /\ UNCHANGED others
    /\ IF resp[u] = "null"
       THEN OnDropCatch(u, MsgTypeError)
       ELSE UploadFailed(u, ErrorText(resp[u]))
    /\ UNCHANGED <<uploadedFile, showResults, display, counters>>

\* pollTimeoutRef.current = setTimeout(pollForResults, delay)
Schedule(u, delay) ==
    /\ timers' = timers \cup {<<u, polls[u]>>}
    /\ pollTimeoutRef' = <<u, polls[u]>>
    /\ lastDelay' = [lastDelay EXCEPT ![u] = delay]

\* the upload response handled by polling at once instead of after the first
\* delay
StartPollingAtOnce(u) ==
    /\ currentPdfIdRef' = JobId(u)
    /\ pollInterval' = [pollInterval EXCEPT ![u] = initialPollInterval]
    /\ totalPollTime' = [totalPollTime EXCEPT ![u] = 0]
    /\ polls' = [polls EXCEPT ![u] = @ + 1]
    /\ Await(u, "fetching", "")
    /\ UNCHANGED <<error, isAnalyzing, pollTimeoutRef, timers, lastDelay, waited, stopSent>>

\* a 2xx upload response carried an id: store it and start polling
StartPolling(u) ==
    /\ currentPdfIdRef' = JobId(u)
    /\ pollInterval' = [pollInterval EXCEPT ![u] = initialPollInterval]
    /\ totalPollTime' = [totalPollTime EXCEPT ![u] = 0]
    /\ Schedule(u, initialPollInterval)
    /\ Await(u, "waiting", "")
    /\ UNCHANGED <<error, isAnalyzing, polls, waited, stopSent>>

\* the upload response handled without the if (!pdfId) check
TextResolveNoIdCheck(u) ==
    /\ pc[u] = "reading"
    /\ UNCHANGED others
    /\ CASE resp[u] = "unparseable" -> OnDropCatch(u, MsgParse) /\ UNCHANGED counters
         [] resp[u] = "null" -> OnDropCatch(u, MsgTypeError) /\ UNCHANGED counters
         [] OTHER -> StartPolling(u)
    /\ UNCHANGED <<uploadedFile, showResults, display>>

\* await response.text() of a 2xx response settles, then JSON.parse and the id
TextResolve(u) ==
    /\ pc[u] = "reading"
    /\ UNCHANGED others
    /\ CASE resp[u] = "unparseable" -> OnDropCatch(u, MsgParse) /\ UNCHANGED counters
         [] resp[u] = "null" -> OnDropCatch(u, MsgTypeError) /\ UNCHANGED counters
         [] resp[u] = "noId" -> OnDropCatch(u, MsgNoId) /\ UNCHANGED counters
         [] OTHER -> StartPolling(u)
    /\ UNCHANGED <<uploadedFile, showResults, display>>

\* ------------------------------------------------------------ pollForResults
\* the race guard: currentPdfIdRef.current !== pdfId means "stale, return"
IsCurrent(u) == currentPdfIdRef = JobId(u)

\* the interval left as it is
BackoffNone(i) == i

\* Math.floor(pollInterval * backoffMultiplier)
Backoff(i) == (i * BackoffNum) \div BackoffDen

\* the budget never checked
TimedOutNever(t) == FALSE

\* totalPollTime >= maxPollTime
TimedOut(t) == t >= maxPollTime

\* catch (pollError) without the race guard
PollCatchUnguarded(u, msg) ==
    /\ error' = msg
    /\ isAnalyzing' = FALSE
    /\ ClearPolling
    /\ Return(u, "pollThrew")

\* catch (pollError) reporting the error and polling again
PollCatchRetries(u, msg) ==
    IF IsCurrent(u)
    THEN /\ error' = msg
         /\ isAnalyzing' = FALSE
         /\ timers' = timers \cup {<<u, polls[u]>>}
         /\ pollTimeoutRef' = <<u, polls[u]>>
         /\ Await(u, "waiting", "")
         /\ UNCHANGED currentPdfIdRef
    ELSE /\ Return(u, "stale")
         /\ UNCHANGED <<error, isAnalyzing, refs>>

\* catch (pollError) of pollForResults
PollCatch(u, msg) ==
    IF IsCurrent(u)
    THEN /\ error' = msg
         /\ isAnalyzing' = FALSE
         /\ ClearPolling
         /\ Return(u, "pollThrew")
    ELSE /\ Return(u, "stale")
         /\ UNCHANGED <<error, isAnalyzing, refs>>

\* the poll timer behaving like an interval: it fires and stays armed
TimerFireRepeats(u) ==
    /\ pc[u] = "waiting"
    /\ UNCHANGED others
    /\ \E h \in timers : h[1] = u
    /\ waited' = [waited EXCEPT ![u] = @ + lastDelay[u]]
    /\ IF IsCurrent(u)
       THEN /\ Await(u, "fetching", "")
            /\ polls' = [polls EXCEPT ![u] = @ + 1]
       ELSE /\ Return(u, "stale")
            /\ UNCHANGED polls
    /\ UNCHANGED <<view, refs, pollInterval, totalPollTime, lastDelay, stopSent>>

\* the poll timer of closure u fires: pollForResults starts, checks the guard and
\* sends the status request
TimerFire(u) ==
    /\ pc[u] = "waiting"
    /\ UNCHANGED others
    /\ \E h \in timers :
          /\ h[1] = u
          /\ timers' = timers \ {h}
    /\ waited' = [waited EXCEPT ![u] = @ + lastDelay[u]]
    /\ IF IsCurrent(u)
       THEN /\ Await(u, "fetching", "")
            /\ polls' = [polls EXCEPT ![u] = @ + 1]
       ELSE /\ Return(u, "stale")
            /\ UNCHANGED polls
    /\ UNCHANGED <<view, pollTimeoutRef, currentPdfIdRef, pollInterval, totalPollTime,
                   lastDelay, stopSent>>

StatusBodies == {"undecodable", "null", "error", "errorNoText", "processing", "completed",
                 "completedNullMonth", "other"}

\* await fetch(resultsUrl) settles: rejected, or a response with status and body;
\* capped: the server no longer answers 'processing' for this job
FetchResolve(u, r, b, capped) ==
    /\ pc[u] = "fetching"
    /\ UNCHANGED others
    /\ CASE r = "reject" -> b = "" /\ PollCatch(u, MsgStatusNetwork)
         [] r = "non2xx" -> b = "" /\ PollCatch(u, MsgStatusFetch)
         [] OTHER ->
              /\ b \in StatusBodies
              /\ capped => b # "processing"
              /\ Await(u, "decoding", b)
              /\ UNCHANGED <<error, isAnalyzing, refs>>
    /\ UNCHANGED <<uploadedFile, showResults, display, counters>>

\* the 'error' branch also asking the server to stop the job
StatusErrorSendsStop(u, msg) ==
    /\ error' = msg
    /\ isAnalyzing' = FALSE
    /\ ClearPolling
    /\ Return(u, "jobError")
    /\ stopSent' = stopSent \cup {JobId(u)}
    /\ UNCHANGED <<uploadedFile, showResults, display, pollInterval, totalPollTime, polls,
                   lastDelay, waited>>

\* if (resultsData.status === 'error') reporting the error while the analyzing
\* flag stays set
StatusErrorStillAnalyzing(u, msg) ==
    /\ error' = msg
    /\ ClearPolling
    /\ Return(u, "jobError")
    /\ UNCHANGED <<uploadedFile, isAnalyzing, showResults, display, counters>>

\* if (resultsData.status === 'error')
StatusError(u, msg) ==
    /\ error' = msg
    /\ isAnalyzing' = FALSE
    /\ ClearPolling
    /\ Return(u, "jobError")
    /\ UNCHANGED <<uploadedFile, showResults, display, counters>>

\* the 'processing' branch growing the interval before it schedules the poll
StatusProcessingGrowsFirst(u) ==
    /\ totalPollTime' = [totalPollTime EXCEPT ![u] = @ + pollInterval[u]]
    /\ IF TimedOut(totalPollTime'[u])
       THEN /\ stopSent' = stopSent \cup {JobId(u)}
            /\ Await(u, "stopping", "")
            /\ UNCHANGED <<refs, pollInterval, lastDelay>>
       ELSE /\ Schedule(u, Backoff(pollInterval[u]))
            /\ pollInterval' = [pollInterval EXCEPT ![u] = Backoff(@)]
            /\ Await(u, "waiting", "")
            /\ UNCHANGED <<currentPdfIdRef, stopSent>>
    /\ UNCHANGED <<view, polls, waited>>

\* if (resultsData.status === 'processing')
StatusProcessing(u) ==
    /\ totalPollTime' = [totalPollTime EXCEPT ![u] = @ + pollInterval[u]]
    /\ IF TimedOut(totalPollTime'[u])
       THEN /\ stopSent' = stopSent \cup {JobId(u)}
            /\ Await(u, "stopping", "")
            /\ UNCHANGED <<refs, pollInterval, lastDelay>>
       ELSE /\ Schedule(u, pollInterval[u])
            /\ pollInterval' = [pollInterval EXCEPT ![u] = Backoff(@)]
            /\ Await(u, "waiting", "")
            /\ UNCHANGED <<currentPdfIdRef, stopSent>>
    /\ UNCHANGED <<view, polls, waited>>

\* if (resultsData.status === 'completed'): the three mapping stages in order; a
\* null month record makes mapMonthlyStats throw
StatusCompleted(u, monthFault) ==
    /\ accountInfo' = JobId(u)
    /\ IF monthFault
       THEN /\ PollCatch(u, MsgMonthly)
            /\ UNCHANGED <<monthlyData, analytics, showResults>>
       ELSE /\ monthlyData' = JobId(u)
            /\ analytics' = JobId(u)
            /\ isAnalyzing' = FALSE
            /\ showResults' = TRUE
            /\ ClearPolling
            /\ Return(u, "completed")
            /\ UNCHANGED error
    /\ UNCHANGED <<uploadedFile, counters>>

\* await resultsResponse.json() settles
JsonResolve(u) ==
    /\ pc[u] = "decoding"
    /\ UNCHANGED others
    /\ IF resp[u] = "undecodable"
       THEN PollCatch(u, MsgStatusBody) /\ UNCHANGED <<uploadedFile, showResults, display, counters>>
       ELSE IF ~IsCurrent(u)
       THEN Return(u, "stale") /\ UNCHANGED <<view, refs, counters>>
       ELSE CASE resp[u] = "null" ->
                   PollCatch(u, MsgStatusNull) /\ UNCHANGED <<uploadedFile, showResults, display, counters>>
              [] resp[u] = "error" -> StatusError(u, MsgJobError)
              [] resp[u] = "errorNoText" -> StatusError(u, MsgJobFallback)
              [] resp[u] = "processing" -> StatusProcessing(u)
              [] resp[u] = "completed" -> StatusCompleted(u, FALSE)
              [] resp[u] = "completedNullMonth" -> StatusCompleted(u, TRUE)
              [] OTHER -> Return(u, "fellThrough") /\ UNCHANGED <<view, refs, counters>>

\* the stop request without its own try / catch: a rejected request lands in
\* catch (pollError) and is reported in place of the timeout
StopResolveReportsFailure(u, r) ==
    /\ pc[u] = "stopping"
    /\ UNCHANGED others
    /\ IF r = "ok"
       THEN PollCatch(u, MsgTimeout)
       ELSE IF IsCurrent(u)
       THEN /\ error' = MsgStatusNetwork
            /\ isAnalyzing' = FALSE
            /\ ClearPolling
            /\ Return(u, "stopFailed")
       ELSE /\ Return(u, "stale")
            /\ UNCHANGED <<error, isAnalyzing, refs>>
    /\ UNCHANGED <<uploadedFile, showResults, display, counters>>

\* await fetch(stopUrl) settles: resolved with a 2xx answer ("ok"), resolved with
\* a non-2xx answer, or rejected.  The answer is never read and a rejection is
\* caught and dropped; then the timeout error is thrown into catch (pollError).
\* A session whose stop request failed returns by "stopFailed".
StopResolve(u, r) ==
    /\ pc[u] = "stopping"
    /\ UNCHANGED others
    /\ IF r = "ok"
       THEN PollCatch(u, MsgTimeout)
       ELSE IF IsCurrent(u)
       THEN /\ error' = MsgTimeout
            /\ isAnalyzing' = FALSE
            /\ ClearPolling
            /\ Return(u, "stopFailed")
       ELSE /\ Return(u, "stale")
            /\ UNCHANGED <<error, isAnalyzing, refs>>
    /\ UNCHANGED <<uploadedFile, showResults, display, counters>>

\* "Upload New PDF" button of the results view
UploadNewPdf ==
    /\ mounted
    /\ showResults
    /\ UNCHANGED others
    /\ showResults' = FALSE
    /\ UNCHANGED <<uploadedFile, isAnalyzing, display, error, refs, pc, resp, outcome, counters>>

\* beforeunload / pagehide listener, registered while App is mounted
HandleBeforeUnload ==
    /\ mounted
    /\ ClearPolling
    /\ UNCHANGED others
    /\ UNCHANGED <<view, pc, resp, outcome, counters>>

\* a cleanup that also cancels the polling
UnmountClearsPolling ==
    /\ mounted
    /\ mounted' = FALSE
    /\ ClearPolling
    /\ UNCHANGED <<view, pc, resp, outcome, counters, mapVars, authVars>>

\* App unmounts: the cleanup of the effect removes the two listeners and does
\* not call clearPolling
Unmount ==
    /\ mounted
    /\ mounted' = FALSE
    /\ UNCHANGED <<view, refs, pc, resp, outcome, counters, mapVars, authVars>>

\* ------------------------------------------------------------ display mapping
\* A decoded JSON object is a function from the names of the fields it carries
\* to their values; a field the object does not carry is outside its DOMAIN, and
\* reading it gives undefined.
\* amounts of the answers explored: -MaxAmount .. MaxAmount
MaxAmount == 2
\* fields of an answer changed before it is mapped
MaxEdits == 1

Amounts == (0 - MaxAmount)..MaxAmount
Texts == {"", "ACME"}
\* {}
EmptyObject == [f \in {} |-> 0]
\* the one month of monthly_analysis
Month == "Jan"

AccountTextFields == {"customer_name", "account_number", "iban_number", "financial_period"}
AccountNumFields == {"opening_balance", "closing_balance", "pages_processed", "total_transactions"}
MonthFields == {"opening_balance", "closing_balance", "total_credit", "total_debit", "net_change",
                "fluctuation", "international_inward_count", "international_outward_count",
                "international_inward_total", "international_outward_total", "minimum_balance"}
\* display name |-> server name of the ten analytics fields
AnalyticsSource ==
    [averageFluctuation |-> "average_fluctuation",
     netCashFlowStability |-> "net_cash_flow_stability",
     totalForeignTransactions |-> "total_foreign_transactions",
     totalForeignAmount |-> "total_foreign_amount",
     overdraftFrequency |-> "overdraft_frequency",
     overdraftTotalDays |-> "overdraft_total_days",
     sum_total_inflow |-> "sum_total_inflow",
     sum_total_outflow |-> "sum_total_outflow",
     avg_total_inflow |-> "avg_total_inflow",
     avg_total_outflow |-> "avg_total_outflow"]
AnalyticsFields == {AnalyticsSource[d] : d \in DOMAIN AnalyticsSource}

Parts == {"account_info", "monthly_analysis", "analytics"}
FieldsOf(part) ==
    CASE part = "account_info" -> AccountTextFields \cup AccountNumFields
      [] part = "monthly_analysis" -> MonthFields
      [] OTHER -> AnalyticsFields
ValuesOf(part, f) == IF part = "account_info" /\ f \in AccountTextFields THEN Texts ELSE Amounts

\* Math.abs
Abs(x) == IF x < 0 THEN 0 - x ELSE x
\* o.f || "" : undefined and "" both give ""
OrText(o, f) == IF f \in DOMAIN o /\ o[f] # "" THEN o[f] ELSE ""
\* o.f || 0 : undefined and 0 both give 0
OrZero(o, f) == IF f \in DOMAIN o /\ o[f] # 0 THEN o[f] ELSE 0
\* o.f ?? 0
Coalesce(o, f) == IF f \in DOMAIN o THEN o[f] ELSE 0

mapAccountInfo(a) ==
    [customerName |-> OrText(a, "customer_name"),
     accountNumber |-> OrText(a, "account_number"),
     ibanNumber |-> OrText(a, "iban_number"),
     openingBalance |-> OrZero(a, "opening_balance"),
     closingBalance |-> OrZero(a, "closing_balance"),
     financialPeriod |-> OrText(a, "financial_period"),
     pagesProcessed |-> OrZero(a, "pages_processed"),
     totalTransactions |-> OrZero(a, "total_transactions")]

\* mapMonthlyStats with outflows: stats.total_debit ?? 0, the sign kept
mapMonthlyStatsSigned(month, stats) ==
    [month |-> month,
     openingBalance |-> Coalesce(stats, "opening_balance"),
     closingBalance |-> Coalesce(stats, "closing_balance"),
     inflows |-> Coalesce(stats, "total_credit"),
     outflows |-> Coalesce(stats, "total_debit"),
     netChange |-> Coalesce(stats, "net_change"),
     fluctuation |-> Coalesce(stats, "fluctuation"),
     foreignTxns |-> Coalesce(stats, "international_inward_count")
                       + Coalesce(stats, "international_outward_count"),
     foreignAmount |-> Coalesce(stats, "international_inward_total")
                         + Coalesce(stats, "international_outward_total"),
     minBalance |-> Coalesce(stats, "minimum_balance")]

mapMonthlyStats(month, stats) ==
    [month |-> month,
     openingBalance |-> Coalesce(stats, "opening_balance"),
     closingBalance |-> Coalesce(stats, "closing_balance"),
     inflows |-> Coalesce(stats, "total_credit"),
     outflows |-> Abs(Coalesce(stats, "total_debit")),
     netChange |-> Coalesce(stats, "net_change"),
     fluctuation |-> Coalesce(stats, "fluctuation"),
     foreignTxns |-> Coalesce(stats, "international_inward_count")
                       + Coalesce(stats, "international_outward_count"),
     foreignAmount |-> Coalesce(stats, "international_inward_total")
                         + Coalesce(stats, "international_outward_total"),
     minBalance |-> Coalesce(stats, "minimum_balance")]

\* the analytics object built with ?? 0 on every field
mappedAnalyticsDefaulted(a) == [d \in DOMAIN AnalyticsSource |-> Coalesce(a, AnalyticsSource[d])]

\* const mappedAnalytics = { d: resultsData.analytics?.f, ... }: a field the answer
\* does not carry is undefined in the display model
mappedAnalytics(a) ==
    [d \in {x \in DOMAIN AnalyticsSource : AnalyticsSource[x] \in DOMAIN a} |-> a[AnalyticsSource[d]]]

\* resultsData.part || {}, resultsData.analytics?.
PartOrEmpty(r, part) == IF part \in DOMAIN r THEN r[part] ELSE EmptyObject

\* the three mapping stages of the 'completed' branch
MapCompleted(r) ==
    [accountInfo |-> mapAccountInfo(PartOrEmpty(r, "account_info")),
     monthlyData |-> IF "monthly_analysis" \in DOMAIN r
                     THEN <<mapMonthlyStats(Month, r["monthly_analysis"][Month])>>
                     ELSE <<>>,
     analytics |-> mappedAnalytics(PartOrEmpty(r, "analytics"))]

\* what a card of the results view shows for an analytics field: analytics?.d || 0
\* (and '0.00%' / '0.0000' when the field is undefined)
CardValue(an, d) == IF d \in DOMAIN an /\ an[d] # 0 THEN an[d] ELSE 0

Put(o, f, v) == [k \in DOMAIN o \cup {f} |-> IF k = f THEN v ELSE o[k]]
Without(o, f) == [k \in DOMAIN o \ {f} |-> o[k]]

\* the object of a part whose fields are mapped
ObjectOf(r, part) == IF part = "monthly_analysis" THEN r[part][Month] ELSE r[part]
WithObject(r, part, o) ==
    Put(r, part, IF part = "monthly_analysis" THEN Put(EmptyObject, Month, o) ELSE o)

\* an answer whose parts carry every field, with one amount and one text
FullAnswer(v, t) ==
    [part \in Parts |->
        IF part = "monthly_analysis"
        THEN Put(EmptyObject, Month, [f \in MonthFields |-> v])
        ELSE [f \in FieldsOf(part) |->
                 IF part = "account_info" /\ f \in AccountTextFields THEN t ELSE v]]

\* an answer whose parts are all present and carry no field
HollowAnswer ==
    [part \in Parts |->
        IF part = "monthly_analysis" THEN Put(EmptyObject, Month, EmptyObject) ELSE EmptyObject]

\* no answer is being mapped
InitMapIdle ==
    /\ resultsData = EmptyObject
    /\ mapped = EmptyObject
    /\ mapPc = "input"
    /\ edits = 0

\* the server puts field f = v into a part of the answer
SetField(part, f, v) ==
    /\ mapPc = "input"
    /\ edits < MaxEdits
    /\ part \in DOMAIN resultsData
    /\ f \in FieldsOf(part)
    /\ v \in ValuesOf(part, f)
    /\ resultsData' = WithObject(resultsData, part, Put(ObjectOf(resultsData, part), f, v))
    /\ edits' = edits + 1
    /\ UNCHANGED <<mapped, mapPc, appVars, authVars>>

\* the server leaves field f out of a part of the answer
RemoveField(part, f) ==
    /\ mapPc = "input"
    /\ edits < MaxEdits
    /\ part \in DOMAIN resultsData
    /\ f \in DOMAIN ObjectOf(resultsData, part)
    /\ resultsData' = WithObject(resultsData, part, Without(ObjectOf(resultsData, part), f))
    /\ edits' = edits + 1
    /\ UNCHANGED <<mapped, mapPc, appVars, authVars>>

\* the server leaves a whole part out of the answer
RemovePart(part) ==
    /\ mapPc = "input"
    /\ edits < MaxEdits
    /\ part \in DOMAIN resultsData
    /\ resultsData' = Without(resultsData, part)
    /\ edits' = edits + 1
    /\ UNCHANGED <<mapped, mapPc, appVars, authVars>>

\* the 'completed' branch maps the answer into the display model
MapResults ==
    /\ mapPc = "input"
    /\ mapped' = MapCompleted(resultsData)
    /\ mapPc' = "mapped"
    /\ UNCHANGED <<resultsData, edits, appVars, authVars>>

\* ------------------------------------------------------------ passcode lockout
\* LoginPage and ResetPasscodeModal keep the same lockout state and differ in
\* how a request is started; `form` says which of the two is watched.  Time is
\* Date.now() in seconds.
\* largest minutes count the server reports
MaxMinutes == 1
\* last clock reading explored
MaxClock == 62
\* login / reset requests explored
MaxRequests == 2

\* minutes * 60 * 1000 milliseconds
SecondsPerMinute == 60
\* null of lockoutUntil
NoLockout == 0 - 1

MsgFormNetwork == "Network error. Please try again."
MsgLockedOut == "Too many failed attempts. Try again in N minutes."
MsgLockedNoCount == "Too many failed attempts. Try again later."
MsgRefused == "Invalid passcode. 2 attempts remaining."
MsgLoginFallback == "Invalid passcode"
MsgResetFallback == "Failed to reset passcode"
MsgValidation == "New passcode must be exactly 6 digits"

Forms == {"login", "reset"}

\* cells of the PasscodeInput explored (the length prop, 6 by default)
length == 3
\* the values matching /^\d$/ that are typed or pasted: two digits tell the
\* cells apart
Digits == {"0", "1"}
\* Array(length).fill('')
EmptyCells == [i \in 1..length |-> ""]
\* nothing decoded
NoResp == [kind |-> "", minutes |-> 0]

\* the lockout is always over
ExpiredAlways(lu, t) == lu # NoLockout

\* lockoutUntil && now >= lockoutUntil
Expired(lu, t) == lu # NoLockout /\ t >= lu

\* Math.ceil(a / b) of non-negative a
CeilDiv(a, b) == (a + b - 1) \div b

\* getRemainingTime() with null as 0
GetRemainingTime(lu, t) ==
    IF lu = NoLockout \/ Expired(lu, t) THEN 0 ELSE CeilDiv(lu - t, SecondsPerMinute)

\* new Date(Date.now() + minutes * 60 * 1000)
LockoutFor(minutes) == now + minutes * SecondsPerMinute

\* a render that passes disabled = loading only
RenderWithoutLockout(lu, ld) ==
    /\ remainingMinutes' = GetRemainingTime(lu, now)
    /\ lockoutUntil' = IF Expired(lu, now) THEN NoLockout ELSE lu
    /\ loading' = ld
    /\ disabled' = ld

\* the render that follows a state change, lockoutUntil and loading having the
\* new values lu and ld: getRemainingTime() clears an expired lockout, and the
\* inputs get disabled = loading || !!remainingMinutes
Render(lu, ld) ==
    /\ remainingMinutes' = GetRemainingTime(lu, now)
    /\ lockoutUntil' = IF Expired(lu, now) THEN NoLockout ELSE lu
    /\ loading' = ld
    /\ disabled' = (ld \/ GetRemainingTime(lu, now) # 0)

\* no form is watched
InitAuthIdle ==
    /\ form = "login"
    /\ now = 0
    /\ lockoutUntil = NoLockout
    /\ loading = FALSE
    /\ formError = ""
    /\ remainingMinutes = 0
    /\ disabled = FALSE
    /\ formPc = "idle"
    /\ formResp = NoResp
    /\ statusPc = "unsent"
    /\ statusResp = NoResp
    /\ requests = 0
    /\ values = EmptyCells
    /\ code = <<>>
    /\ event = ""

\* the request of the submit handler is sent: setError(''), setLoading(true), fetch
SendRequest ==
    /\ requests < MaxRequests
    /\ requests' = requests + 1
    /\ formError' = ""
    /\ Render(lockoutUntil, TRUE)
    /\ formPc' = "fetching"
    /\ UNCHANGED <<form, now, formResp, statusPc, statusResp>>

\* PasscodeInput calls onComplete (its handlers return at once when disabled):
\* handlePasscodeComplete of LoginPage
HandlePasscodeComplete ==
    /\ form = "login"
    /\ formPc = "idle"
    /\ ~disabled
    /\ SendRequest
    /\ UNCHANGED <<appVars, mapVars, inputVars>>

\* the "Forgot Passcode?" button: isOpen becomes true and checkBackendLockout
\* sends the auth/status request
OpenResetModal ==
    /\ form = "reset"
    /\ statusPc = "unsent"
    /\ statusPc' = "fetching"
    /\ UNCHANGED <<form, now, lockVars, formPc, formResp, statusResp, requests>>
    /\ UNCHANGED <<appVars, mapVars, inputVars>>

\* await fetch(auth/status) settles
StatusFetchResolve(r, locked, minutes) ==
    /\ statusPc = "fetching"
    /\ IF r = "reject"
       THEN /\ statusPc' = "done"
            /\ UNCHANGED statusResp
       ELSE /\ statusPc' = "decoding"
            /\ statusResp' = [kind |-> IF r = "undecodable" THEN r
                                        ELSE IF locked THEN "locked" ELSE "free",
                              minutes |-> minutes]
    /\ UNCHANGED <<form, now, lockVars, formPc, formResp, requests>>
    /\ UNCHANGED <<appVars, mapVars, inputVars>>

\* await response.json() of auth/status settles:
\* if (data.creds_locked && data.creds_lockout_minutes) setLockoutUntil(...)
StatusJsonResolve ==
    /\ statusPc = "decoding"
    /\ statusPc' = "done"
    /\ statusResp' = NoResp
    /\ IF statusResp.kind = "locked" /\ statusResp.minutes # 0
       THEN Render(LockoutFor(statusResp.minutes), loading)
       ELSE UNCHANGED lockVars
    /\ UNCHANGED formError
    /\ UNCHANGED <<form, now, formPc, formResp, requests>>
    /\ UNCHANGED <<appVars, mapVars, inputVars>>

\* the submit button of the reset form (disabled with the inputs): handleSubmit
\* validates the fields and sends the request
HandleSubmit(valid) ==
    /\ form = "reset"
    /\ statusPc # "unsent"
    /\ formPc = "idle"
    /\ ~disabled
    /\ IF valid
       THEN SendRequest
       ELSE /\ formError' = MsgValidation
            /\ Render(lockoutUntil, loading)
            /\ UNCHANGED <<form, now, formPc, formResp, statusPc, statusResp, requests>>
    /\ UNCHANGED <<appVars, mapVars, inputVars>>

\* catch (err) and finally of the submit handler
FormCatch ==
    /\ formError' = MsgFormNetwork
    /\ Render(lockoutUntil, FALSE)
    /\ formPc' = "idle"
    /\ formResp' = NoResp

FormKinds == {"undecodable", "ok", "locked", "lockedNoCount", "refused", "refusedNoText"}

\* await fetch(login / reset-passcode) settles
FormFetchResolve(r, kind, minutes) ==
    /\ formPc = "fetching"
    /\ IF r = "reject"
       THEN FormCatch
       ELSE /\ formPc' = "decoding"
            /\ formResp' = [kind |-> kind, minutes |-> IF kind = "locked" THEN minutes ELSE 0]
            /\ UNCHANGED lockVars
    /\ UNCHANGED <<form, now, statusPc, statusResp, requests>>
    /\ UNCHANGED <<appVars, mapVars, inputVars>>

\* await response.json() of the submit handler settles
FormJsonResolve ==
    /\ formPc = "decoding"
    /\ CASE formResp.kind = "undecodable" -> FormCatch
         [] formResp.kind = "ok" ->
              /\ Render(lockoutUntil, FALSE)
              /\ formPc' = "left"
              /\ formResp' = NoResp
              /\ UNCHANGED formError
         [] OTHER ->
              /\ formError' =
                    CASE formResp.kind = "locked" -> MsgLockedOut
                      [] formResp.kind = "lockedNoCount" -> MsgLockedNoCount
                      [] formResp.kind = "refused" -> MsgRefused
                      [] OTHER -> IF form = "login" THEN MsgLoginFallback ELSE MsgResetFallback
              /\ Render(IF formResp.kind = "locked"
                        THEN LockoutFor(formResp.minutes) ELSE lockoutUntil, FALSE)
              /\ formPc' = "idle"
              /\ formResp' = NoResp
    /\ UNCHANGED <<form, now, statusPc, statusResp, requests>>
    /\ UNCHANGED <<appVars, mapVars, inputVars>>

\* the callback of setInterval(checkLockout, 1000) finds the lockout over
CheckLockout ==
    /\ form = "login" => formPc # "left"
    /\ Expired(lockoutUntil, now)
    /\ Render(NoLockout, loading)
    /\ UNCHANGED <<form, now, formError, formPc, formResp, statusPc, statusResp, requests>>
    /\ UNCHANGED <<appVars, mapVars, inputVars>>

\* a render caused by any other state change of the form (typing, the password
\* eye, the modal opening)
Rerender ==
    /\ formPc # "left"
    /\ Render(lockoutUntil, loading)
    /\ UNCHANGED <<form, now, formError, formPc, formResp, statusPc, statusResp, requests>>
    /\ UNCHANGED <<appVars, mapVars, inputVars>>

\* a second of wall-clock time passes
AdvanceClock ==
    /\ now < MaxClock
    /\ now' = now + 1
    /\ UNCHANGED <<form, lockVars, formPc, formResp, statusPc, statusResp, requests>>
    /\ UNCHANGED <<appVars, mapVars, inputVars>>

\* ------------------------------------------------------------- PasscodeInput
\* The cells of LoginPage's PasscodeInput.  A string is the sequence of its
\* characters; a cell holds '' or one character.
\* what is not a digit: a letter, and a value of two characters
NonDigits == {"a", "00"}
\* e.target.value of a change event
ChangeValues == {""} \cup Digits \cup NonDigits
\* characters of a pasted text: a digit and a letter
PasteChars == {"0", "a"}
\* clipboard texts of up to length + 1 characters
PasteTexts == UNION {[1..n -> PasteChars] : n \in 0..(length + 1)}
Keys == {"Backspace", "ArrowLeft"}

\* newValues.join('')
Join(vs) == SelectSeq(vs, LAMBDA c : c # "")

\* text.slice(0, length)
Slice(text) == SubSeq(text, 1, IF Len(text) < length THEN Len(text) ELSE length)

\* /^\d+$/.test(text)
AllDigits(text) == Len(text) > 0 /\ \A i \in 1..Len(text) : text[i] \in Digits

\* what a change event carries
ChangeKind(value) ==
    IF value = "" THEN "empty" ELSE IF value \in Digits THEN "digit" ELSE "nondigit"

\* the handler returns without a state update
Ignored ==
    UNCHANGED <<values, code, form, now, lockVars, formPc, formResp, statusPc, statusResp,
                requests>>

\* the handler does not call onComplete
NotCompleted ==
    UNCHANGED <<code, form, now, lockVars, formPc, formResp, statusPc, statusResp, requests>>

\* onComplete(passcode): handlePasscodeComplete of LoginPage sends the login request
OnComplete(passcode) ==
    /\ code' = passcode
    /\ SendRequest

\* handleChange accepting any value
HandleChangeUnfiltered(index, value) ==
    /\ form = "login"
    /\ formPc # "left"
    /\ UNCHANGED <<appVars, mapVars>>
    /\ event' = ChangeKind(value)
    /\ IF disabled
       THEN Ignored
       ELSE LET newValues == [values EXCEPT ![index] = value] IN
            /\ values' = newValues
            /\ IF (\A i \in 1..length : newValues[i] # "") /\ Len(Join(newValues)) = length
               THEN OnComplete(Join(newValues))
               ELSE NotCompleted

\* handleChange calling onComplete whatever the disabled prop says
HandleChangeWhenDisabled(index, value) ==
    /\ form = "login"
    /\ formPc # "left"
    /\ UNCHANGED <<appVars, mapVars>>
    /\ event' = ChangeKind(value)
    /\ IF value # "" /\ value \notin Digits
       THEN Ignored
       ELSE LET newValues == [values EXCEPT ![index] = value] IN
            /\ values' = newValues
            /\ IF (\A i \in 1..length : newValues[i] # "") /\ Len(Join(newValues)) = length
               THEN OnComplete(Join(newValues))
               ELSE NotCompleted

\* handleChange(index, value): a change event of cell index
HandleChange(index, value) ==
    /\ form = "login"
    /\ formPc # "left"
    /\ UNCHANGED <<appVars, mapVars>>
    /\ event' = ChangeKind(value)
    /\ IF disabled \/ (value # "" /\ value \notin Digits)
       THEN Ignored
       ELSE LET newValues == [values EXCEPT ![index] = value] IN
            /\ values' = newValues
            /\ IF (\A i \in 1..length : newValues[i] # "") /\ Len(Join(newValues)) = length
               THEN OnComplete(Join(newValues))
               ELSE NotCompleted

\* handleKeyDown(index, e): Backspace clears the cell, or the one before it
\* when the cell is empty
HandleKeyDown(index, key) ==
    /\ form = "login"
    /\ formPc # "left"
    /\ UNCHANGED <<appVars, mapVars>>
    /\ event' = "key"
    /\ NotCompleted
    /\ IF disabled \/ key # "Backspace"
       THEN UNCHANGED values
       ELSE IF values[index] # ""
       THEN values' = [values EXCEPT ![index] = ""]
       ELSE IF index > 1
       THEN values' = [values EXCEPT ![index - 1] = ""]
       ELSE UNCHANGED values

\* handlePaste(e): the first length characters of the clipboard text replace
\* the cells when they are all digits
HandlePaste(text) ==
    /\ form = "login"
    /\ formPc # "left"
    /\ UNCHANGED <<appVars, mapVars>>
    /\ LET pastedData == Slice(text) IN
       /\ event' = IF AllDigits(pastedData) THEN "digits" ELSE "nondigits"
       /\ IF disabled \/ ~AllDigits(pastedData)
          THEN Ignored
          ELSE /\ values' = [i \in 1..length |->
                               IF i <= Len(pastedData) THEN pastedData[i] ELSE ""]
               /\ IF Len(pastedData) = length
                  THEN OnComplete(pastedData)
                  ELSE NotCompleted

\* ------------------------------------------------------------ specifications
Results == {"reject", "non2xx", "ok"}

\* the upload page after construction; no answer is being mapped, no form watched
Init == InitApp /\ InitMapIdle /\ InitAuthIdle

\* every step the page can take with at most maxU accepted drops; rounds > 0 caps
\* the 'processing' answers per job
Step(maxU, rounds) ==
    \/ \E n \in {0, 1} : OnDrop(n, maxU)
    \/ \E u \in Uploads, r \in Results, b \in ErrBodies \cup UploadBodies \cup {""} :
          UploadResolve(u, r, b)
    \/ \E u \in Uploads : ErrBodyResolve(u)
    \/ \E u \in Uploads : TextResolve(u)
    \/ \E u \in Uploads : TimerFire(u)
    \/ \E u \in Uploads, r \in Results, b \in StatusBodies \cup {""} :
          FetchResolve(u, r, b, rounds > 0 /\ polls[u] > rounds)
    \/ \E u \in Uploads : JsonResolve(u)
    \/ UploadNewPdf
    \/ HandleBeforeUnload

\* the server finishes every job within MaxRounds 'processing' answers
Next == Step(MaxUploads, MaxRounds)
Spec == Init /\ [][Next]_vars

\* the server may answer 'processing' until the wait budget is used up
NextLong == Step(MaxLongUploads, 0) \/ \E u \in Uploads, r \in Results : StopResolve(u, r)
SpecLong == Init /\ [][NextLong]_vars

\* a long session during which App may unmount
NextUnmount == NextLong \/ Unmount
SpecUnmount == Init /\ [][NextUnmount]_vars

\* every request settles and every pending timer fires
Settles(u) ==
    /\ WF_vars(\E r \in Results, b \in ErrBodies \cup UploadBodies \cup {""} : UploadResolve(u, r, b))
    /\ WF_vars(ErrBodyResolve(u))
    /\ WF_vars(TextResolve(u))
    /\ WF_vars(TimerFire(u))
    /\ WF_vars(\E r \in Results, b \in StatusBodies \cup {""} : FetchResolve(u, r, b, FALSE))
    /\ WF_vars(JsonResolve(u))
    /\ WF_vars(\E r \in Results : StopResolve(u, r))
FairSpecLong == SpecLong /\ \A u \in Uploads : Settles(u)

\* a 'completed' answer is put together and mapped: every part complete with one
\* amount, every part empty, or no part at all, then up to MaxEdits changes
InitMap ==
    /\ InitApp
    /\ InitAuthIdle
    /\ \/ resultsData = EmptyObject
       \/ resultsData = HollowAnswer
       \/ \E v \in Amounts : resultsData = FullAnswer(v, "ACME")
    /\ mapped = EmptyObject
    /\ mapPc = "input"
    /\ edits = 0
NextMap ==
    \/ \E part \in Parts : \E f \in FieldsOf(part) : \E v \in ValuesOf(part, f) :
          SetField(part, f, v)
    \/ \E part \in Parts : \E f \in FieldsOf(part) : RemoveField(part, f)
    \/ \E part \in Parts : RemovePart(part)
    \/ MapResults
SpecMap == InitMap /\ [][NextMap]_vars

\* one of the two passcode forms from its first render on
InitAuth ==
    /\ InitApp
    /\ InitMapIdle
    /\ form \in Forms
    /\ now = 0
    /\ lockoutUntil = NoLockout
    /\ loading = FALSE
    /\ formError = ""
    /\ remainingMinutes = 0
    /\ disabled = FALSE
    /\ formPc = "idle"
    /\ formResp = NoResp
    /\ statusPc = "unsent"
    /\ statusResp = NoResp
    /\ requests = 0
    /\ values = EmptyCells
    /\ code = <<>>
    /\ event = ""
NextAuth ==
    \/ HandlePasscodeComplete
    \/ OpenResetModal
    \/ \E r \in {"reject", "undecodable", "ok"}, locked \in BOOLEAN, m \in 0..MaxMinutes :
          StatusFetchResolve(r, locked, m)
    \/ StatusJsonResolve
    \/ \E valid \in BOOLEAN : HandleSubmit(valid)
    \/ \E r \in {"reject", "ok"}, kind \in FormKinds, m \in 0..MaxMinutes :
          FormFetchResolve(r, kind, m)
    \/ FormJsonResolve
    \/ CheckLockout
    \/ Rerender
    \/ AdvanceClock
SpecAuth == InitAuth /\ [][NextAuth]_vars
\* the interval callback keeps firing
FairSpecAuth == SpecAuth /\ WF_vars(CheckLockout)

\* time passes until the lockout is over (the clock of the cells' specification
\* moves by whole lockouts)
LockoutRunsOut ==
    /\ lockoutUntil # NoLockout
    /\ now < lockoutUntil
    /\ lockoutUntil <= MaxClock
    /\ now' = lockoutUntil
    /\ UNCHANGED <<form, lockVars, formPc, formResp, statusPc, statusResp, requests>>
    /\ UNCHANGED <<appVars, mapVars, inputVars>>

\* the login form with its cells: typing, keys, pastes, answers and the clock
NextInput ==
    \/ \E index \in 1..length, value \in ChangeValues : HandleChange(index, value)
    \/ \E index \in 1..length, key \in Keys : HandleKeyDown(index, key)
    \/ \E text \in PasteTexts : HandlePaste(text)
    \/ \E r \in {"reject", "ok"}, kind \in FormKinds, m \in 0..MaxMinutes :
          FormFetchResolve(r, kind, m)
    \/ FormJsonResolve
    \/ CheckLockout
    \/ Rerender
    \/ LockoutRunsOut
SpecInput == Init /\ [][NextInput]_vars

\* ------------------------------------------------------------------ claims
\* closure u has a poll timer pending in the timer set ts
HasTimer(u, ts) == \E h \in ts : h[1] = u

\* this step is a step of pollForResults of closure u (its timer fires, or one of
\* its awaits settles)
PollStep(u) == pc[u] \in {"waiting", "fetching", "decoding", "stopping"} /\ pc'[u] # pc[u]

\* what the page shows, the marker and the stored timer handle
observable == <<error, isAnalyzing, showResults, display, currentPdfIdRef, pollTimeoutRef>>

\* C1: once a second upload has begun (also while the first POST was still in
\* flight), no step of the first job's poll callbacks changes the error message,
\* the analyzing flag, the results flag, the display model, the marker or the
\* stored timer handle.
C1_SupersededPollsChangeNothing ==
    [][\A u \in Uploads : (uploadedFile > u /\ PollStep(u)) => UNCHANGED observable]_vars

\* C2: a poll callback of job j that starts, or resumes from its status request
\* (fetch or body, resolved or rejected), while the marker is not j changes no
\* view state, neither ref, sends no request and schedules no timer.
C2_StaleCallbackDoesNothing ==
    [][\A u \in Uploads :
          (/\ pc[u] \in {"waiting", "fetching", "decoding"}
           /\ pc'[u] # pc[u]
           /\ currentPdfIdRef # JobId(u))
          => /\ UNCHANGED <<view, pollTimeoutRef, currentPdfIdRef, polls, stopSent>>
             /\ timers' \subseteq timers
             /\ ~HasTimer(u, timers')
             /\ pc'[u] \in {"decoding", "done"}]_vars

\* a callback that had sent a status request returned by the guard after a newer
\* upload began
C2_Witness == \E u \in Uploads : outcome[u] = "stale" /\ polls[u] >= 1 /\ uploadedFile > u

\* C3: whenever the marker is set it is the id of the most recently started
\* upload.
C3_MarkerIsNewestUpload == currentPdfIdRef # None => currentPdfIdRef = JobId(uploadedFile)

\* C4: a session whose answers are all 'processing' and that is not superseded
\* ends with the timeout error: a poll is pending or in flight only while the
\* accumulated time is below maxPollTime, the stop request's settling reports the
\* timeout (message set, analyzing cleared, no timer left, closure returned), and
\* a current session with a pending timer always comes to return or to be
\* superseded (stated for the uploads a long session can have).
C4_ProcessingOnlyEndsInTimeout ==
    /\ [](\A u \in Uploads :
            pc[u] \in {"waiting", "fetching", "decoding"} => totalPollTime[u] < maxPollTime)
    /\ [][\A u \in Uploads :
            /\ (pc[u] = "decoding" /\ resp[u] = "processing" /\ pc'[u] # pc[u]
                   /\ currentPdfIdRef = JobId(u))
                 => pc'[u] \in {"waiting", "stopping"}
            /\ (pc[u] = "stopping" /\ pc'[u] # pc[u] /\ currentPdfIdRef = JobId(u))
                 => /\ totalPollTime[u] >= maxPollTime
                    /\ error' = MsgTimeout
                    /\ ~isAnalyzing'
                    /\ ~HasTimer(u, timers')
                    /\ pc'[u] = "done"]_vars
    /\ \A u \in 1..MaxLongUploads :
          (pc[u] = "waiting" /\ currentPdfIdRef = JobId(u))
             ~> (pc[u] = "done" \/ currentPdfIdRef # JobId(u))

\* a session timed out
C4_Witness ==
    \E u \in Uploads :
        /\ pc[u] = "done" /\ outcome[u] = "pollThrew" /\ JobId(u) \in stopSent
        /\ error = MsgTimeout /\ ~isAnalyzing /\ timers = {}
        /\ totalPollTime[u] >= maxPollTime

\* C5: the delay scheduled after a 'processing' answer is the delay scheduled
\* after the previous 'processing' answer times 1.5, rounded down, and is
\* strictly larger.
C5_DelayGrowsByMultiplier ==
    [][\A u \in Uploads :
          (pc[u] = "decoding" /\ pc'[u] = "waiting" /\ polls[u] >= 2)
          => /\ lastDelay'[u] = (lastDelay[u] * BackoffNum) \div BackoffDen
             /\ lastDelay'[u] > lastDelay[u]]_vars

\* the third 'processing' answer of a session has scheduled its poll
C5_Witness ==
    \E u \in Uploads :
        /\ pc[u] = "waiting" /\ polls[u] = 3
        /\ lastDelay[u] = Backoff(Backoff(initialPollInterval))

\* C6: a timeout is reported for a session only when the delays it actually
\* waited sum to at least maxPollTime.
C6_TimeoutOnlyAfterMaxWait ==
    \A u \in Uploads :
        (outcome[u] = "pollThrew" /\ JobId(u) \in stopSent /\ error = MsgTimeout)
        => waited[u] >= maxPollTime

\* closure u never polls: it has returned, has no timer and sent no status request
NeverPolls(u) == pc'[u] = "done" /\ ~HasTimer(u, timers') /\ polls'[u] = 0

\* C7: a non-2xx upload response, no newer upload having begun, sets the error
\* message to the body's text or a generic message and clears the analyzing
\* flag; the closure returns, schedules no poll and sends no further request.
C7_UploadHttpErrorReported ==
    [][\A u \in Uploads :
          /\ (pc[u] = "errbody" /\ pc'[u] # pc[u] /\ uploadedFile = u)
               => /\ error' \in {MsgServerText, MsgUploadFailed, MsgServerError, MsgTypeError}
                  /\ ~isAnalyzing'
                  /\ NeverPolls(u)
          /\ outcome[u] = "uploadFailed" => NeverPolls(u)]_vars

\* the latest upload failed with the server's error text
C7_Witness ==
    \E u \in Uploads :
        /\ outcome[u] = "uploadFailed" /\ uploadedFile = u
        /\ error = MsgServerText /\ ~isAnalyzing

\* C8: a non-2xx upload response whose body is not JSON still ends with the
\* generic 'Server error' message shown and the analyzing flag cleared, the
\* closure returning normally.
C8_UndecodableErrorBodyReported ==
    [][\A u \in Uploads :
          (pc[u] = "errbody" /\ resp[u] = "undecodable" /\ pc'[u] # pc[u])
          => /\ error' = MsgServerError
             /\ error' # Null
             /\ ~isAnalyzing'
             /\ pc'[u] = "done"
             /\ outcome'[u] = "uploadFailed"]_vars

\* an upload failed with an undecodable body
C8_Witness ==
    \E u \in Uploads :
        outcome[u] = "uploadFailed" /\ error = MsgServerError /\ ~isAnalyzing

\* C9: a 2xx upload response without an id reports an error and clears the
\* analyzing flag; the marker is unset afterwards and is never this upload's,
\* and the upload never polls.
C9_MissingIdReported ==
    [][\A u \in Uploads :
          /\ (pc[u] = "reading" /\ resp[u] = "noId" /\ pc'[u] # pc[u])
               => /\ error' = MsgNoId
                  /\ ~isAnalyzing'
                  /\ currentPdfIdRef' = None
                  /\ NeverPolls(u)
          /\ outcome[u] = "uploadThrew"
               => NeverPolls(u) /\ currentPdfIdRef' # JobId(u)]_vars

\* an upload answered without an id has been reported
C9_Witness ==
    \E u \in Uploads :
        /\ outcome[u] = "uploadThrew" /\ error = MsgNoId
        /\ ~isAnalyzing /\ currentPdfIdRef = None

\* C10: a status request of the current job that is rejected or answered non-2xx
\* reports a status-check error, clears the analyzing flag and ends polling: no
\* timer, no further status request.
C10_StatusFailureStopsPolling ==
    [][\A u \in Uploads :
          /\ (pc[u] = "fetching" /\ pc'[u] \notin {"fetching", "decoding"}
                 /\ currentPdfIdRef = JobId(u))
               => /\ error' \in {MsgStatusNetwork, MsgStatusFetch}
                  /\ ~isAnalyzing'
                  /\ pc'[u] = "done"
                  /\ ~HasTimer(u, timers')
                  /\ polls'[u] = polls[u]
          /\ outcome[u] = "pollThrew"
               => pc'[u] = "done" /\ ~HasTimer(u, timers') /\ polls'[u] = polls[u]]_vars

\* the current job's status request failed and was reported
C10_Witness ==
    \E u \in Uploads :
        /\ outcome[u] = "pollThrew" /\ error \in {MsgStatusNetwork, MsgStatusFetch}
        /\ ~isAnalyzing /\ uploadedFile = u /\ polls[u] >= 1

\* C11: a status answer 'error' for the current job sets the error message to
\* the server's text, or to the generic fallback when the answer carries none,
\* clears the analyzing flag, leaves the results flag and the display model as
\* they were, and ends polling: the closure returns, no timer of it is left and
\* it sends no further status request.
C11_JobErrorReported ==
    [][\A u \in Uploads :
          /\ (pc[u] = "decoding" /\ resp[u] \in {"error", "errorNoText"} /\ pc'[u] # pc[u]
                 /\ currentPdfIdRef = JobId(u))
               => /\ error' = (IF resp[u] = "error" THEN MsgJobError ELSE MsgJobFallback)
                  /\ ~isAnalyzing'
                  /\ UNCHANGED <<showResults, display>>
                  /\ pc'[u] = "done"
                  /\ ~HasTimer(u, timers')
                  /\ polls'[u] = polls[u]
          /\ outcome[u] = "jobError"
               => pc'[u] = "done" /\ ~HasTimer(u, timers') /\ polls'[u] = polls[u]]_vars

\* the current job was answered 'error' without a text and the fallback is shown
C11_Witness ==
    \E u \in Uploads :
        /\ outcome[u] = "jobError" /\ uploadedFile = u /\ error = MsgJobFallback
        /\ ~isAnalyzing /\ ~showResults /\ timers = {}

\* C12: whenever the results view is shown, the account info, the monthly data
\* and the analytics of the display model were all stored from the 'completed'
\* answer of one and the same job.
C12_ResultsFromOneResponse ==
    showResults => /\ accountInfo # None
                   /\ monthlyData = accountInfo
                   /\ analytics = accountInfo

\* C15: a 'completed' answer of the current job whose mapping throws (here a null
\* month record) reports an error, clears the analyzing flag, leaves the results
\* flag as it was, and changes none of accountInfo, monthlyData and analytics.
C15_MappingFaultNoPartialUpdate ==
    [][\A u \in Uploads :
          (pc[u] = "decoding" /\ resp[u] = "completedNullMonth" /\ pc'[u] # pc[u]
              /\ currentPdfIdRef = JobId(u))
          => /\ error' # Null
             /\ ~isAnalyzing'
             /\ UNCHANGED showResults
             /\ UNCHANGED display]_vars

\* C16: a status answer with an unrecognised status for the current job either
\* schedules another poll of that job or reports an error and clears the
\* analyzing flag; the page is never left analyzing with the closure returned
\* and no poll timer pending.
C16_UnknownStatusHandled ==
    [][\A u \in Uploads :
          (pc[u] = "decoding" /\ resp[u] = "other" /\ pc'[u] # pc[u]
              /\ currentPdfIdRef = JobId(u))
          => \/ HasTimer(u, timers') /\ pc'[u] = "waiting"
             \/ error' # Null /\ ~isAnalyzing']_vars

\* C20: the accumulated elapsed time of a session is the sum of the delays it
\* has actually waited: once a 'processing' answer has been handled (the next
\* poll is scheduled, or the stop request is sent), totalPollTime equals the sum
\* of the delays of the timers that have fired.
C20_ElapsedIsSumOfWaitedDelays ==
    \A u \in Uploads :
        pc[u] \in {"waiting", "stopping"} => totalPollTime[u] = waited[u]

\* C17: once a file is accepted, and given that every request settles and every
\* pending timer fires, the analyzing state of that upload eventually ends (the
\* results view or an error message) unless a newer upload supersedes it.
C17_AnalyzingEventuallyEnds ==
    \A u \in Uploads :
        (pc[u] = "uploading" /\ uploadedFile = u)
           ~> (~isAnalyzing \/ uploadedFile > u)

\* the month record of the answer being mapped carries every expected field
CompleteMonth ==
    /\ "monthly_analysis" \in DOMAIN resultsData
    /\ DOMAIN resultsData["monthly_analysis"][Month] = MonthFields

\* C13: a month record that carries every expected field maps to a display
\* record with inflows = total_credit, outflows = |total_debit| (never negative),
\* the balances, the net change, the fluctuation and the minimum balance copied,
\* foreignTxns = the two international counts added and foreignAmount = the two
\* international totals added.
C13_CompleteMonthMapped ==
    (mapPc = "mapped" /\ CompleteMonth)
    => LET stats == resultsData["monthly_analysis"][Month]
           shown == mapped.monthlyData[1]
       IN /\ Len(mapped.monthlyData) = 1
          /\ shown.month = Month
          /\ shown.inflows = stats["total_credit"]
          /\ shown.outflows = (IF stats["total_debit"] < 0 THEN 0 - stats["total_debit"]
                               ELSE stats["total_debit"])
          /\ shown.outflows >= 0
          /\ shown.openingBalance = stats["opening_balance"]
          /\ shown.closingBalance = stats["closing_balance"]
          /\ shown.netChange = stats["net_change"]
          /\ shown.fluctuation = stats["fluctuation"]
          /\ shown.minBalance = stats["minimum_balance"]
          /\ shown.foreignTxns = stats["international_inward_count"]
                                   + stats["international_outward_count"]
          /\ shown.foreignAmount = stats["international_inward_total"]
                                     + stats["international_outward_total"]

\* a complete month record with a negative total_debit and a different
\* total_credit has been mapped
C13_Witness ==
    /\ mapPc = "mapped"
    /\ CompleteMonth
    /\ resultsData["monthly_analysis"][Month]["total_debit"] < 0
    /\ resultsData["monthly_analysis"][Month]["total_credit"] > 0
    /\ mapped.monthlyData[1].outflows > 0
    /\ mapped.monthlyData[1].inflows > 0

\* the account fields of the display model, by kind, with their server names
AccountTextSource ==
    [customerName |-> "customer_name", accountNumber |-> "account_number",
     ibanNumber |-> "iban_number", financialPeriod |-> "financial_period"]
AccountNumSource ==
    [openingBalance |-> "opening_balance", closingBalance |-> "closing_balance",
     pagesProcessed |-> "pages_processed", totalTransactions |-> "total_transactions"]
\* the month fields of the display model copied from one server field
MonthSource ==
    [openingBalance |-> "opening_balance", closingBalance |-> "closing_balance",
     inflows |-> "total_credit", outflows |-> "total_debit", netChange |-> "net_change",
     fluctuation |-> "fluctuation", minBalance |-> "minimum_balance"]

\* the account and month fields the answer does not carry are "" / 0 in the
\* display model
AccountAndMonthDefaulted ==
    /\ LET a == PartOrEmpty(resultsData, "account_info")
       IN /\ \A d \in DOMAIN AccountTextSource :
                AccountTextSource[d] \notin DOMAIN a => mapped.accountInfo[d] = ""
          /\ \A d \in DOMAIN AccountNumSource :
                AccountNumSource[d] \notin DOMAIN a => mapped.accountInfo[d] = 0
    /\ "monthly_analysis" \notin DOMAIN resultsData => mapped.monthlyData = <<>>
    /\ "monthly_analysis" \in DOMAIN resultsData =>
          LET stats == resultsData["monthly_analysis"][Month]
              shown == mapped.monthlyData[1]
          IN /\ \A d \in DOMAIN MonthSource :
                   MonthSource[d] \notin DOMAIN stats => shown[d] = 0
             /\ {"international_inward_count", "international_outward_count"} \cap DOMAIN stats = {}
                   => shown.foreignTxns = 0
             /\ {"international_inward_total", "international_outward_total"} \cap DOMAIN stats = {}
                   => shown.foreignAmount = 0

\* C14 as stated: every field a 'completed' answer does not carry, in
\* account_info, in a month record or in analytics, is 0 (numeric) or "" (text)
\* in the display model.
C14_MissingFieldsDefault ==
    mapPc = "mapped"
    => /\ AccountAndMonthDefaulted
       /\ LET a == PartOrEmpty(resultsData, "analytics")
          IN \A d \in DOMAIN AnalyticsSource :
                AnalyticsSource[d] \notin DOMAIN a
                   => d \in DOMAIN mapped.analytics /\ mapped.analytics[d] = 0

\* C14 amended: a field missing from account_info or from a month record is ""
\* / 0 in the display model; a field missing from analytics is undefined in the
\* display model (no default is applied by the mapping) and the cards of the
\* results view show 0 for it; mapping never fails on a missing field.
C14_MissingFieldsDefaultOrUndefined ==
    mapPc = "mapped"
    => /\ AccountAndMonthDefaulted
       /\ LET a == PartOrEmpty(resultsData, "analytics")
          IN \A d \in DOMAIN AnalyticsSource :
                AnalyticsSource[d] \notin DOMAIN a
                   => d \notin DOMAIN mapped.analytics /\ CardValue(mapped.analytics, d) = 0

\* an answer whose parts carry no field at all has been mapped
C14_Witness ==
    /\ mapPc = "mapped"
    /\ Parts \subseteq DOMAIN resultsData
    /\ DOMAIN resultsData["account_info"] = {}
    /\ DOMAIN resultsData["monthly_analysis"][Month] = {}
    /\ DOMAIN resultsData["analytics"] = {}
    /\ mapped.accountInfo.customerName = ""
    /\ mapped.monthlyData[1].inflows = 0
    /\ DOMAIN mapped.analytics = {}

\* a lockout timestamp is set and the clock has not passed it
Locked == lockoutUntil # NoLockout /\ now < lockoutUntil

C19_LockedFormSendsNothing ==
    /\ [](Locked => disabled)
    /\ [][requests' # requests => ~Locked /\ ~Locked']_vars

\* a form that sent a request is locked out and idle
C19_Witness ==
    /\ Locked
    /\ disabled
    /\ ~loading
    /\ formPc = "idle"
    /\ formError = MsgLockedOut
    /\ requests >= 1

\* C21: the first poll is scheduled with the initial interval; a 'processing'
\* answer below the budget schedules the next poll with the interval as it is
\* and only then grows it, so the delay scheduled after the first 'processing'
\* answer is the initial interval again.
C21_ScheduleThenGrow ==
    [][\A u \in Uploads :
          /\ (pc[u] = "reading" /\ pc'[u] = "waiting")
               => lastDelay'[u] = initialPollInterval /\ pollInterval'[u] = initialPollInterval
          /\ (pc[u] = "decoding" /\ pc'[u] = "waiting")
               => /\ resp[u] = "processing"
                  /\ lastDelay'[u] = pollInterval[u]
                  /\ pollInterval'[u] = (pollInterval[u] * BackoffNum) \div BackoffDen
                  /\ polls[u] = 1 => lastDelay'[u] = initialPollInterval]_vars

\* the poll after the first 'processing' answer is scheduled at 60 s, the
\* interval already grown for the round after it
C21_Witness ==
    \E u \in Uploads :
        /\ pc[u] = "waiting" /\ polls[u] = 1 /\ HasTimer(u, timers)
        /\ waited[u] = initialPollInterval
        /\ lastDelay[u] = initialPollInterval
        /\ pollInterval[u] = Backoff(initialPollInterval)

\* C22: the stop request is fire-and-forget: while it is in flight for the
\* current job the timeout error is already reported and the analyzing flag
\* already cleared, so the report does not wait for the request to settle.
C22_TimeoutReportedWithoutWaiting ==
    \A u \in Uploads :
        (pc[u] = "stopping" /\ currentPdfIdRef = JobId(u))
        => error = MsgTimeout /\ ~isAnalyzing

\* C23: when the stop request of the current job rejects or is answered
\* non-2xx, the timeout error is what is reported, the analyzing flag is
\* cleared, the closure returns and no poll is scheduled or sent afterwards.
C23_StopFailureIgnored ==
    [][\A u \in Uploads :
          /\ (pc[u] = "stopping" /\ outcome'[u] = "stopFailed")
               => /\ error' = MsgTimeout
                  /\ ~isAnalyzing'
                  /\ pc'[u] = "done"
                  /\ ~HasTimer(u, timers')
          /\ outcome[u] = "stopFailed"
               => pc'[u] = "done" /\ ~HasTimer(u, timers') /\ polls'[u] = polls[u]]_vars

\* a session timed out although its stop request failed
C23_Witness ==
    \E u \in Uploads :
        /\ outcome[u] = "stopFailed" /\ JobId(u) \in stopSent
        /\ error = MsgTimeout /\ ~isAnalyzing /\ timers = {}

C25_NoEarlierTimerPending == \A h \in timers : h[1] = uploadedFile


\* the paths on which a polling session ends by itself
TerminalOutcomes == {"completed", "jobError", "pollThrew", "stopFailed"}

\* C26: every step that ends a polling session (results shown, job error, failed
\* status request, mapping fault, timeout) leaves the timer handle and the
\* job marker cleared and no poll timer of that session pending.
C26_TerminalStepClearsPolling ==
    [][\A u \in Uploads :
          (pc[u] \in {"fetching", "decoding", "stopping"} /\ pc'[u] = "done"
             /\ outcome'[u] \in TerminalOutcomes)
          => /\ pollTimeoutRef' = NoTimer
             /\ currentPdfIdRef' = None
             /\ ~HasTimer(u, timers')]_vars

C26_Witness ==
    \E u \in Uploads :
        /\ outcome[u] = "pollThrew" /\ JobId(u) \in stopSent
        /\ pollTimeoutRef = NoTimer /\ currentPdfIdRef = None /\ ~HasTimer(u, timers)


\* no onDrop or pollForResults other than closure u's is between its start and its end
NoOtherInProgress(u) == \A v \in Uploads \ {u} : pc[v] \in {"idle", "done"}

\* C27: when an upload response carrying an id is handled and no other upload
\* is in progress, the marker becomes that id and exactly one poll timer is
\* pending, set to the initial interval; a status request of a session is sent
\* only by a step that fires a pending timer of that session after its delay.
C27_FirstPollAfterInitialInterval ==
    [][\A u \in Uploads :
          /\ (pc[u] = "reading" /\ pc'[u] = "waiting" /\ NoOtherInProgress(u))
               => /\ currentPdfIdRef' = JobId(u)
                  /\ timers' = {<<u, 0>>}
                  /\ pollTimeoutRef' = <<u, 0>>
                  /\ lastDelay'[u] = initialPollInterval
                  /\ polls'[u] = 0
          /\ pc[u] = "reading" => pc'[u] \in {"reading", "waiting", "done"}
          /\ polls'[u] # polls[u]
               => /\ pc[u] = "waiting" /\ pc'[u] = "fetching"
                  /\ HasTimer(u, timers) /\ ~HasTimer(u, timers')
                  /\ waited'[u] = waited[u] + lastDelay[u]]_vars

C27_Witness ==
    \E u \in Uploads :
        /\ pc[u] = "waiting" /\ polls[u] = 0 /\ NoOtherInProgress(u)
        /\ currentPdfIdRef = JobId(u) /\ timers = {<<u, 0>>}
        /\ lastDelay[u] = initialPollInterval /\ waited[u] = 0


\* C28: when the record of a month faults in mapping, the error message that
\* is reported names that month.
C28_MonthFaultNamesMonth ==
    [][\A u \in Uploads :
          (pc[u] = "decoding" /\ resp[u] = "completedNullMonth" /\ outcome'[u] = "pollThrew")
          => error' = MsgMonthNamed]_vars


\* C29: in every state at most one of these holds: the analyzing flag is set,
\* the results view is shown, an error message is set.
C29_AtMostOneViewState ==
    /\ ~(isAnalyzing /\ showResults)
    /\ ~(isAnalyzing /\ error # Null)
    /\ ~(showResults /\ error # Null)


\* the status request of closure u is in flight or its response is being handled
PollInProgress(u) == pc[u] \in {"fetching", "decoding", "stopping"}

\* C30: a session has at most one poll timer pending, and none while a status
\* request of it is in flight or being handled: the next poll is scheduled only
\* by the step that finishes handling the previous response, so polls of a
\* session never overlap.
C30_PollsNeverOverlap ==
    \A u \in Uploads :
        /\ Cardinality({h \in timers : h[1] = u}) <= 1
        /\ HasTimer(u, timers) => pc[u] = "waiting"
        /\ PollInProgress(u) => ~HasTimer(u, timers)

C30_Witness ==
    \E u \in Uploads : pc[u] = "fetching" /\ polls[u] >= 2 /\ ~HasTimer(u, timers)


\* C31: when the backend status answer reporting a lockout of M > 0 minutes is
\* handled, the lockout is set to now + M minutes and the user has made no
\* attempt before that.
C31_StatusSeedsLockoutBeforeAttempt ==
    [][(statusPc = "decoding" /\ statusPc' = "done"
          /\ statusResp.kind = "locked" /\ statusResp.minutes # 0)
       => /\ lockoutUntil' = now + statusResp.minutes * SecondsPerMinute
          /\ requests = 0]_vars


\* C32: when the request of an upload fails after a newer upload has begun, the
\* failure changes neither the error message nor the analyzing flag, and
\* leaves the marker and the pending poll timers as they are.
C32_StaleUploadFailureIgnored ==
    [][\A u \in Uploads :
          (pc[u] \in {"uploading", "errbody", "reading"} /\ pc'[u] = "done" /\ u < uploadedFile)
          => UNCHANGED <<error, isAnalyzing, currentPdfIdRef, pollTimeoutRef, timers>>]_vars


\* closure u is in its polling session
Polling(u) == pc[u] \in {"waiting", "fetching", "decoding", "stopping"}

\* C33: a beforeunload / pagehide event (the only step that changes the refs
\* while every closure stays where it is) cancels the stored timer and clears
\* the marker; a session that is not the marker's stays so, and its steps send
\* no request, schedule no timer and change nothing the page shows.  Unmounting
\* leaves the timer handle, the marker and the pending timers unchanged, after
\* it the unload handler no longer runs, and a pending timer of the current
\* session can still fire.
C33_UnloadStopsPollingUnmountDoesNot ==
    /\ [][/\ (pc' = pc /\ refs' # refs)
               => /\ mounted
                  /\ pollTimeoutRef' = NoTimer
                  /\ currentPdfIdRef' = None
                  /\ timers' = timers \ {pollTimeoutRef}
          /\ \A u \in Uploads :
                (Polling(u) /\ ~IsCurrent(u))
                => /\ currentPdfIdRef' # JobId(u)
                   /\ PollStep(u)
                        => /\ UNCHANGED <<view, polls, stopSent, currentPdfIdRef, pollTimeoutRef>>
                           /\ timers' \subseteq timers
          /\ mounted' # mounted => ~mounted' /\ UNCHANGED <<view, refs, pc, counters>>]_vars
    /\ [](\A u \in Uploads :
            (~mounted /\ pc[u] = "waiting" /\ IsCurrent(u) /\ HasTimer(u, timers))
            => ENABLED TimerFire(u))

\* after App unmounted the session went on to a further status request
C33_Witness ==
    \E u \in Uploads : ~mounted /\ IsCurrent(u) /\ pc[u] = "fetching" /\ polls[u] >= 2


\* a login request is in flight or its answer is being decoded
LoginOutstanding == form = "login" /\ formPc \in {"fetching", "decoding"}

\* C34: a login request is initiated only while the form is enabled, no other
\* login request is outstanding and no lockout is active; while a request is
\* outstanding the form is loading and its cells are disabled, so at most one
\* login request is outstanding whatever is typed, pasted or answered.
C34_NoLoginRequestWhileDisabled ==
    /\ [][(form = "login" /\ requests' # requests)
          => /\ ~disabled /\ ~loading /\ ~Locked /\ ~LoginOutstanding
             /\ requests' = requests + 1
             /\ LoginOutstanding']_vars
    /\ [](LoginOutstanding => loading /\ disabled)
    /\ [](form = "login" /\ Locked /\ formPc # "left" => disabled)

C34_Witness ==
    /\ form = "login" /\ formPc = "idle" /\ Locked /\ disabled /\ requests >= 1
    /\ \A i \in 1..length : values[i] \in Digits


\* C35: every cell holds '' or one digit; whenever onComplete is called its
\* argument is a string of exactly `length` digits and is the content of the
\* cells after the event; an event that carries a non-digit value, or a pasted
\* text whose first `length` characters are not all digits, leaves the cells
\* as they are and calls nothing.
C35_OnCompleteOnlyWithAllDigits ==
    /\ [](\A i \in 1..length : values[i] \in Digits \cup {""})
    /\ [][/\ (requests' # requests \/ code' # code)
               => /\ Len(code') = length
                  /\ \A i \in 1..length : code'[i] \in Digits
                  /\ code' = values'
                  /\ event' \in {"digit", "digits"}
          /\ event' \in {"nondigit", "nondigits"} => UNCHANGED <<values, code, requests>>]_vars

C35_Witness ==
    /\ formPc = "fetching" /\ requests = 1 /\ event = "digit"
    /\ Len(code) = length /\ code = values /\ code[1] # code[length]

====
